---- MODULE Spec2Model ----
(***************************************************************************)
(* Call campaign orchestrator of Ahoum-Dev/custom-agent.                   *)
(*                                                                         *)
(* Three operating-system processes share the contact file                 *)
(* facilitators.csv:                                                       *)
(*   - the campaign process  (python call_manager.py), whose CallManager   *)
(*     owns a CSVManager with the DataFrame `df`;                          *)
(*   - the worker process    (main.py), whose module-level csv_manager     *)
(*     owns the DataFrame `worker_df` and whose OnboardingAgent runs the   *)
(*     in-call tool actions;                                               *)
(*   - the command line      (python call_manager.py add NAME PHONE).     *)
(* Every CSVManager loads the file once, when it is constructed, and       *)
(* writes its whole DataFrame back on every save.                          *)
(*                                                                         *)
(* pandas index labels are 0-based; the model uses the 1-based position.   *)
(* An Optional value is <<>> (None) or a one-element sequence.             *)
(***************************************************************************)
EXTENDS Integers, Sequences, FiniteSets, TLC

\* ------------------------------------------------------------------ bounds
MaxContacts == 2      \* rows the contact file may hold
MaxCalls    == 2      \* largest MAX_CALLS_PER_SESSION drawn from the environment
MaxNotes    == 2      \* entries OnboardingAgent.call_notes may hold
MaxSessions == 2      \* campaign processes started
MaxAgentCalls == 1    \* calls the worker's agent takes

MaxEvents == 3        \* events the session emits to the logger's handlers in one call
maxlen    == 2        \* XADD's maxlen; 1000 in redis_logger, scaled for the search

TicksPerSecond == 4   \* writes of the contact file that fit into one second of the clock
MaxInterval    == 1   \* largest CALL_INTERVAL_SECONDS drawn from the environment

\* int(os.getenv("CALL_INTERVAL_SECONDS", "120")) when the variable is unset
CALL_INTERVAL_SECONDS == 120

Names    == <<"Bob", "Jane", "Ann", "Raj">>   \* the k-th contact added
Reasons  == {"", "busy"}
Outcomes == {"ok", "fail", "raise"}

NaT  == 0             \* missing last_called (None / NaN / NaT); real stamps are >= 1
None == <<>>

\* the module whose attach_logging the worker calls: redis_logger as main.py
\* imports it, or postgres_logger, which takes (session, room_name, ctx) only
Loggers    == {"redis_logger", "postgres_logger"}
Roles      == {"assistant", "user"}
Texts      == {"Hi", "Hello"}
\* a participant identity is the sequence of its leading word and the rest
Identities == {<<"agent", "-AJ_7">>, <<"sip_", "+15550001">>, <<"sip_", "+15550002">>}

VARIABLES
    file,                   \* facilitators.csv
    now,                    \* wall clock, datetime.now()
    df,                     \* CallManager.csv_manager.df
    pc,                     \* position of the campaign process
    max_calls_per_session,  \* CallManager.max_calls_per_session
    stats,                  \* local of start_calling_session: get_stats() before the loop
    call_count, successful_calls, failed_calls,
    facilitator,            \* local of start_calling_session
    call_result,            \* value returned by make_call
    session_result,         \* value returned by start_calling_session
    gateway_log,            \* requests the telephony gateway received in this session
    worker_df,              \* main.csv_manager.df
    sessions,               \* campaign processes started so far
    agent_calls,            \* calls the agent has taken so far
    agent_state,            \* "down" | "idle" | "incall"
    current_facilitator,    \* OnboardingAgent.current_facilitator
    call_notes,             \* OnboardingAgent.call_notes
    logger,                 \* the logging module of this deployment
    db_manager,             \* TRUE: database.db_manager imported; FALSE: None
    twilio_client,          \* TelephonyService.twilio_client is not None
    livekit_client,         \* TelephonyService.livekit_client is not None
    call_interval_seconds,  \* CallManager.call_interval_seconds
    csv_writable,           \* to_csv can write facilitators.csv
    sink_state,             \* "none" | "attached" | "closed" (shutdown hooks ran)
    events,                 \* events the session has emitted in this call
    last_event,             \* the last handler run and how it ended
    user_id,                \* attach_logging's user_id
    call_start_time,        \* call_start_time / started_at
    history,                \* session.history
    stream,                 \* Redis stream convo:<room_name>
    xadd_count,             \* entries ever added to the stream
    archive,                \* Redis key convo:<room_name>:archive
    tasks,                  \* asyncio tasks created and not yet finished
    call_transcripts,       \* table call_transcripts, rows of this call
    conversation_turns,     \* table conversation_turns, rows of this call
    message_buffer,         \* postgres_logger's message_buffer
    stream_closed,          \* the session has emitted stream_closed
    conversations,          \* table conversations, rows of this room
    messages,               \* table messages, rows of this room
    conversation_logs,      \* files written under conversation_logs/
    notifications           \* requests posted to NOTIFY_URL

vars == <<file, now, df, pc, max_calls_per_session, stats, call_count,
          successful_calls, failed_calls, facilitator, call_result,
          session_result, gateway_log, sessions, agent_calls, worker_df,
          agent_state,
          current_facilitator, call_notes,
          logger, db_manager, twilio_client, livekit_client, call_interval_seconds,
          csv_writable, sink_state, events, last_event, user_id,
          call_start_time, history, stream, xadd_count, archive, tasks,
          call_transcripts, conversation_turns, message_buffer, stream_closed,
          conversations, messages, conversation_logs, notifications>>

campaign_vars == <<df, pc, max_calls_per_session, stats, call_count,
                   successful_calls, failed_calls, facilitator, call_result,
                   session_result, gateway_log, sessions>>

campaign_vars_but_pc == <<df, max_calls_per_session, stats, call_count,
                          successful_calls, failed_calls, facilitator, call_result,
                          session_result, gateway_log, sessions>>

agent_vars == <<agent_calls, worker_df, agent_state, current_facilitator, call_notes>>

deployment_vars == <<logger, db_manager, twilio_client, livekit_client,
                     call_interval_seconds, csv_writable>>

redis_vars == <<stream, xadd_count, archive>>

durable_vars == <<tasks, call_transcripts, conversation_turns>>

postgres_vars == <<message_buffer, stream_closed, conversations, messages,
                   conversation_logs, notifications>>

sink_vars == <<deployment_vars, sink_state, events, last_event, user_id,
               call_start_time, history, redis_vars, durable_vars, postgres_vars>>

\* ------------------------------------------------------------ CSVManager

\* phone numbers are carried along and never inspected
PhoneOf(name) == IF name = "Jane" THEN "+15550001" ELSE "+15550002"

\* add_facilitator's new_row
NewRow(name) ==
    [name |-> name, phone_number |-> PhoneOf(name), status |-> "pending",
     last_called |-> NaT, call_attempts |-> 0, notes |-> <<>>,
     onboarding_completed |-> FALSE]

\* facilitators.csv as it may exist before the first run: absent, or a list
\* kept by hand with one contact already tried once, the time not recorded
ImportedRow ==
    [name |-> "Eve", phone_number |-> "+15550003", status |-> "pending",
     last_called |-> NaT, call_attempts |-> 1, notes |-> <<>>,
     onboarding_completed |-> FALSE]

InitialFiles == {<<>>, <<ImportedRow>>}

\* pd.read_csv of what to_csv wrote: the rows come back in file order
load_csv(f) == f

\* save_csv: what facilitators.csv holds after the DataFrame d was saved
\* over f; a failing to_csv is logged and swallowed, the file stays
save_csv(d, f, writable) == IF writable THEN d ELSE f

\* variants of Pending: no filter at all; failed rows filtered out as well
Pending_all(d) == DOMAIN d

Pending_not_failed(d) ==
    {i \in DOMAIN d : d[i].onboarding_completed # TRUE /\ d[i].status # "failed"}

\* self.df[self.df['onboarding_completed'] != True]
Pending(d) == {i \in DOMAIN d : d[i].onboarding_completed # TRUE}

\* variant of SortsBefore: last_called descending
SortsBefore_latest(d, i, j) ==
    \/ d[i].call_attempts < d[j].call_attempts
    \/ /\ d[i].call_attempts = d[j].call_attempts
       /\ \/ d[i].last_called > d[j].last_called
          \/ d[i].last_called = d[j].last_called /\ i < j

\* sort_values(['call_attempts', 'last_called'], na_position='first'):
\* lexicographic, missing last_called first, stable on ties
SortsBefore(d, i, j) ==
    \/ d[i].call_attempts < d[j].call_attempts
    \/ /\ d[i].call_attempts = d[j].call_attempts
       /\ \/ d[i].last_called = NaT /\ d[j].last_called # NaT
          \/ /\ d[i].last_called # NaT
             /\ d[j].last_called # NaT
             /\ d[i].last_called < d[j].last_called
          \/ d[i].last_called = d[j].last_called /\ i < j

\* variant of get_next_facilitator: the last row of the sort is returned
get_next_facilitator_last(d) ==
    IF d = <<>> THEN None
    ELSE IF Pending(d) = {} THEN None
    ELSE LET first == CHOOSE i \in Pending(d) :
                          \A j \in Pending(d) \ {i} : SortsBefore(d, j, i)
         IN  <<[index |-> first,
                name |-> d[first].name,
                phone_number |-> d[first].phone_number,
                status |-> d[first].status,
                last_called |-> d[first].last_called,
                call_attempts |-> d[first].call_attempts,
                notes |-> d[first].notes,
                onboarding_completed |-> d[first].onboarding_completed]>>

get_next_facilitator(d) ==
    IF d = <<>> THEN None
    ELSE IF Pending(d) = {} THEN None
    ELSE LET first == CHOOSE i \in Pending(d) :
                          \A j \in Pending(d) \ {i} : SortsBefore(d, i, j)
         IN  <<[index |-> first,
                name |-> d[first].name,
                phone_number |-> d[first].phone_number,
                status |-> d[first].status,
                last_called |-> d[first].last_called,
                call_attempts |-> d[first].call_attempts,
                notes |-> d[first].notes,
                onboarding_completed |-> d[first].onboarding_completed]>>

\* variant of update_call_status: the completed argument is ignored
update_call_status_flag_ignored(d, index, status, notes, completed, t) ==
    [d EXCEPT ![index] =
        [@ EXCEPT !.status = status,
                  !.last_called = t,
                  !.call_attempts = @ + 1,
                  !.notes = IF notes # <<>> THEN Append(@, notes) ELSE @]]

\* a note is the sequence of the pieces its f-string concatenates; the
\* minute stamp update_call_status puts in front of it is left out
update_call_status(d, index, status, notes, completed, t) ==
    [d EXCEPT ![index] =
        [@ EXCEPT !.status = status,
                  !.last_called = t,
                  !.call_attempts = @ + 1,
                  !.notes = IF notes # <<>> THEN Append(@, notes) ELSE @,
                  !.onboarding_completed = IF completed THEN TRUE ELSE @]]

add_facilitator(d, name) == Append(d, NewRow(name))

get_stats(d) ==
    IF d = <<>> THEN [total |-> 0, pending |-> 0, completed |-> 0, failed |-> 0]
    ELSE [total     |-> Len(d),
          pending   |-> Cardinality({i \in DOMAIN d : d[i].onboarding_completed # TRUE}),
          completed |-> Cardinality({i \in DOMAIN d : d[i].onboarding_completed = TRUE}),
          failed    |-> Cardinality({i \in DOMAIN d : d[i].status = "failed"})]

\* ------------------------------------------- database.DatabaseManager

\* the row attach_logging hands to save_call_transcript
CallData(call_id, facilitator_info, t) ==
    [call_id |-> call_id,
     facilitator |-> facilitator_info[1].index,
     call_start_time |-> t,
     call_end_time |-> None,
     call_duration_seconds |-> None,
     call_status |-> "connected",
     full_transcript |-> None,
     notes |-> None]

\* call_id is unique: a second row with the same call_id is refused
save_call_transcript(rows, call_data) ==
    IF \E i \in DOMAIN rows : rows[i].call_id = call_data.call_id
    THEN rows
    ELSE Append(rows, call_data)

\* variant of save_conversation_turn: the row takes the time of the write
save_conversation_turn_written_at(rows, turn) ==
    Append(rows, [turn EXCEPT !.timestamp = now])

save_conversation_turn(rows, turn) == Append(rows, turn)

\* DatabaseManager.update_call_status: UPDATE ... WHERE call_id = :call_id,
\* first the status, then the keyword arguments, in one transaction
db_update_call_status(rows, call_id, status, kwargs) ==
    [i \in DOMAIN rows |->
        IF rows[i].call_id = call_id
        THEN [f \in DOMAIN rows[i] |->
                 IF f = "call_status" THEN status
                 ELSE IF f \in DOMAIN kwargs THEN kwargs[f]
                 ELSE rows[i][f]]
        ELSE rows[i]]

\* ------------------------------------------------- TelephonyService

\* how an f-string prints an Optional[str]
str(value) == IF value = None THEN "None" ELSE value[1]

\* _initiate_twilio_call: the sid of the call the carrier created, or None
\* when there is no Twilio client or calls.create raises
initiate_twilio_call(client, accepted, sid) ==
    IF client /\ accepted THEN <<sid>> ELSE None

\* initiate_outbound_call: created says whether create_room succeeded,
\* accepted whether the carrier accepts the dial request
initiate_outbound_call(lk_client, created, tw_client, accepted, sid) ==
    IF ~ lk_client
    THEN [outcome |-> "fail", call_sid |-> None,
          error |-> "LiveKit client not initialized"]
    ELSE IF ~ created
    THEN [outcome |-> "fail", call_sid |-> None, error |-> "create_room failed"]
    ELSE [outcome |-> "ok", call_sid |-> initiate_twilio_call(tw_client, accepted, sid),
          error |-> ""]

\* ------------------------------------------------------ redis_logger

\* ev.participant.identity.startswith("agent")
startswith_agent(identity) == identity[1] = "agent"

\* XADD with maxlen and approximate=True (MAXLEN ~): the entry is appended
\* and Redis evicts oldest entries a whole node at a time, never leaving
\* fewer than maxlen; how many it evicts depends on its node boundaries
xadd_trim(s) ==
    {SubSeq(s, k + 1, Len(s)) :
        k \in 0..(IF Len(s) > maxlen THEN Len(s) - maxlen ELSE 0)}

\* variant of transcript_line: the line carries the item's role as it is
transcript_line_raw_role(item) ==
    <<item.role, ": ", item.text_content, "\n">>

\* role = "Agent" if item.role == "assistant" else "Facilitator", then
\* f"{role}: {item.text_content}\n", as the pieces the f-string concatenates
transcript_line(item) ==
    <<IF item.role = "assistant" THEN "Agent" ELSE "Facilitator",
      ": ", item.text_content, "\n">>

\* the transcript _flush_history builds from session.history
RECURSIVE full_transcript(_)
full_transcript(h) ==
    IF h = <<>> THEN <<>>
    ELSE (IF Head(h).text_content # ""
          THEN transcript_line(Head(h))
          ELSE <<>>) \o full_transcript(Tail(h))

\* --------------------------------------------------------------- Init

\* no attach_logging has run
NoLogging ==
    /\ sink_state = "none"
    /\ events = 0
    /\ last_event = None
    /\ user_id = <<"unknown">>
    /\ call_start_time = 0
    /\ history = <<>>
    /\ stream = <<>>
    /\ xadd_count = 0
    /\ archive = None
    /\ tasks = <<>>
    /\ call_transcripts = <<>>
    /\ conversation_turns = <<>>
    /\ message_buffer = <<>>
    /\ stream_closed = FALSE
    /\ conversations = <<>>
    /\ messages = <<>>
    /\ conversation_logs = <<>>
    /\ notifications = <<>>

Init ==
    /\ file \in InitialFiles
    /\ now = 0
    /\ df = <<>>
    /\ pc = "idle"
    /\ max_calls_per_session = 1
    /\ stats = get_stats(<<>>)
    /\ call_count = 0
    /\ successful_calls = 0
    /\ failed_calls = 0
    /\ facilitator = None
    /\ call_result = None
    /\ session_result = None
    /\ gateway_log = <<>>
    /\ sessions = 0
    /\ agent_calls = 0
    /\ worker_df = <<>>
    /\ agent_state = "down"
    /\ current_facilitator = None
    /\ call_notes = <<>>
    /\ logger = "redis_logger"
    /\ db_manager = TRUE
    /\ twilio_client = TRUE
    /\ livekit_client = TRUE
    /\ call_interval_seconds = CALL_INTERVAL_SECONDS
    /\ csv_writable = TRUE
    /\ NoLogging

\* ------------------------------------------------- command line: add

\* main(): CallManager() loads the file, add_facilitator appends and saves
CliAdd ==
    /\ Len(file) < MaxContacts
    /\ \E name \in {Names[Len(file) + 1]} :
          file' = save_csv(add_facilitator(load_csv(file), name), file, csv_writable)
    /\ UNCHANGED <<now, campaign_vars, agent_vars, sink_vars>>

\* ------------------------------------------------ campaign process

\* main(): CallManager() and the first lines of start_calling_session
StartCallingSession ==
    /\ pc = "idle"
    /\ sessions' = sessions + 1
    /\ df' = load_csv(file)
    /\ \E m \in 1..MaxCalls : max_calls_per_session' = m
    /\ stats' = get_stats(df')
    /\ call_count' = 0
    /\ successful_calls' = 0
    /\ failed_calls' = 0
    /\ facilitator' = None
    /\ call_result' = None
    /\ session_result' = None
    /\ pc' = "loop"
    /\ UNCHANGED <<file, now, gateway_log, agent_vars, sink_vars>>

\* variant of WhileTest: one round too many
WhileTest_le(count, max) == count <= max

\* while call_count < self.max_calls_per_session
WhileTest(count, max) == count < max

\* the while test, get_next_facilitator, and make_call up to its await
LoopTop ==
    /\ pc = "loop"
    /\ IF WhileTest(call_count, max_calls_per_session) /\ get_next_facilitator(df) # None
       THEN /\ now' = now + 1
            /\ facilitator' = get_next_facilitator(df)
            /\ df' = update_call_status(df, facilitator'[1].index, "in_progress",
                                        <<"Call initiated">>, FALSE, now')
            /\ file' = save_csv(df', file, csv_writable)
            /\ call_result' = None
            /\ pc' = "originate"
       ELSE /\ facilitator' = IF WhileTest(call_count, max_calls_per_session)
                              THEN None ELSE facilitator
            /\ pc' = "final"
            /\ UNCHANGED <<file, now, df, call_result>>
    /\ UNCHANGED <<max_calls_per_session, stats, call_count, successful_calls,
                   failed_calls, session_result, gateway_log, sessions, agent_vars, sink_vars>>

\* int(datetime.now().timestamp()): the whole seconds of the clock
timestamp(t) == t \div TicksPerSecond

\* room_name = f"onboarding-{facilitator_index}-{timestamp}"
RoomName(index, t) == <<"onboarding-", ToString(index), "-", ToString(timestamp(t))>>

\* variants of make_call: no except clause; the else branch marks the
\* contact called
make_call_no_except(d, index, room, reply, t) ==
    CASE reply.outcome = "ok" ->
           [df |-> update_call_status(d, index, "called",
                       <<"Call initiated successfully. Room: ">> \o room
                          \o <<", Call SID: ", str(reply.call_sid)>>, FALSE, t),
            result |-> <<[success |-> TRUE, error |-> <<>>]>>,
            escaped |-> FALSE]
      [] reply.outcome = "fail" ->
           [df |-> update_call_status(d, index, "failed",
                       <<"Call initiation failed: ", reply.error>>, FALSE, t),
            result |-> <<[success |-> FALSE, error |-> <<reply.error>>]>>,
            escaped |-> FALSE]
      [] reply.outcome = "raise" ->
           [df |-> d, result |-> None, escaped |-> TRUE]

make_call_else_called(d, index, room, reply, t) ==
    CASE reply.outcome = "ok" ->
           [df |-> update_call_status(d, index, "called",
                       <<"Call initiated successfully. Room: ">> \o room
                          \o <<", Call SID: ", str(reply.call_sid)>>, FALSE, t),
            result |-> <<[success |-> TRUE, error |-> <<>>]>>,
            escaped |-> FALSE]
      [] reply.outcome = "fail" ->
           [df |-> update_call_status(d, index, "called",
                       <<"Call initiation failed: ", reply.error>>, FALSE, t),
            result |-> <<[success |-> FALSE, error |-> <<reply.error>>]>>,
            escaped |-> FALSE]
      [] reply.outcome = "raise" ->
           [df |-> update_call_status(d, index, "failed",
                       <<"Exception during call: ", reply.error>>, FALSE, t),
            result |-> <<[success |-> FALSE,
                          error |-> <<"Exception during call: ", reply.error>>]>>,
            escaped |-> FALSE]

\* make_call after the await: reply is what initiate_outbound_call gave
\* (outcome "ok" or "fail") or the exception raised inside the try block
\* (outcome "raise").  escaped says whether an exception leaves make_call.
make_call(d, index, room, reply, t) ==
    CASE reply.outcome = "ok" ->
           [df |-> update_call_status(d, index, "called",
                       <<"Call initiated successfully. Room: ">> \o room
                          \o <<", Call SID: ", str(reply.call_sid)>>, FALSE, t),
            result |-> <<[success |-> TRUE, error |-> <<>>]>>,
            escaped |-> FALSE]
      [] reply.outcome = "fail" ->
           [df |-> update_call_status(d, index, "failed",
                       <<"Call initiation failed: ", reply.error>>, FALSE, t),
            result |-> <<[success |-> FALSE, error |-> <<reply.error>>]>>,
            escaped |-> FALSE]
      [] reply.outcome = "raise" ->
           [df |-> update_call_status(d, index, "failed",
                       <<"Exception during call: ", reply.error>>, FALSE, t),
            result |-> <<[success |-> FALSE,
                          error |-> <<"Exception during call: ", reply.error>>]>>,
            escaped |-> FALSE]

\* variant of Tally: a failure is not counted
Tally_success_only(result, successful, failed) ==
    IF result[1].success THEN [successful |-> successful + 1, failed |-> failed]
                         ELSE [successful |-> successful, failed |-> failed]

\* if call_result['success']: successful_calls += 1  else: failed_calls += 1
Tally(result, successful, failed) ==
    IF result[1].success THEN [successful |-> successful + 1, failed |-> failed]
                         ELSE [successful |-> successful, failed |-> failed + 1]

\* make_call from the gateway's answer to its return, then the counters of
\* start_calling_session and the test guarding the sleep.  An exception that
\* left make_call would meet no handler in start_calling_session and end it.
MakeCallReturn ==
    /\ pc = "originate"
    /\ now' = now + 1
    /\ \E raised \in BOOLEAN, created \in BOOLEAN, accepted \in BOOLEAN,
          sid \in {"CA1"}, err \in {"cancelled"} :
          LET index == facilitator[1].index
              room  == RoomName(index, now)
              reply == IF raised
                       THEN [outcome |-> "raise", call_sid |-> None, error |-> err]
                       ELSE initiate_outbound_call(livekit_client, created,
                                                   twilio_client, accepted, sid)
              made  == make_call(df, index, room, reply, now')
              tally == Tally(made.result, successful_calls, failed_calls)
          IN  /\ gateway_log' = Append(gateway_log,
                                       [index |-> index, room |-> room, reply |-> reply,
                                        dialed |-> reply.call_sid # None])
              /\ df' = made.df
              /\ IF made.escaped
                 THEN /\ pc' = "crashed"
                      /\ UNCHANGED <<call_result, successful_calls, failed_calls, call_count>>
                 ELSE /\ call_result' = made.result
                      /\ successful_calls' = tally.successful
                      /\ failed_calls' = tally.failed
                      /\ call_count' = call_count + 1
                      /\ pc' = IF call_count' < max_calls_per_session THEN "sleep" ELSE "loop"
    /\ file' = save_csv(df', file, csv_writable)
    /\ UNCHANGED <<max_calls_per_session, stats, facilitator, session_result, sessions,
                   agent_vars, sink_vars>>

\* asyncio.sleep(call_interval_seconds) is over
Sleep ==
    /\ pc = "sleep"
    /\ now' = now + call_interval_seconds * TicksPerSecond
    /\ pc' = "loop"
    /\ UNCHANGED <<file, df, max_calls_per_session, stats, call_count,
                   successful_calls, failed_calls, facilitator, call_result,
                   session_result, gateway_log, sessions, agent_vars, sink_vars>>

\* the dictionary start_calling_session returns
Summary(count, successful, failed, d) ==
    [total_calls |-> count,
     successful_calls |-> successful,
     failed_calls |-> failed,
     final_stats |-> get_stats(d)]

SessionComplete ==
    /\ pc = "final"
    /\ session_result' = <<Summary(call_count, successful_calls, failed_calls, df)>>
    /\ pc' = "done"
    /\ UNCHANGED <<file, now, df, max_calls_per_session, stats, call_count,
                   successful_calls, failed_calls, facilitator, call_result,
                   gateway_log, sessions, agent_vars, sink_vars>>

\* the campaign process has exited, its memory is gone, and the operator
\* is about to run it once more
RunAgain ==
    /\ pc \in {"done", "crashed"}
    /\ sessions < MaxSessions
    /\ pc' = "idle"
    /\ df' = <<>>
    /\ max_calls_per_session' = 1
    /\ stats' = get_stats(<<>>)
    /\ call_count' = 0
    /\ successful_calls' = 0
    /\ failed_calls' = 0
    /\ facilitator' = None
    /\ call_result' = None
    /\ session_result' = None
    /\ gateway_log' = <<>>
    /\ UNCHANGED <<file, now, sessions, agent_vars, sink_vars>>

\* -------------------------------------------------- worker process

\* import of main.py: csv_manager = CSVManager()
WorkerImport ==
    /\ agent_state = "down"
    /\ worker_df' = load_csv(file)
    /\ agent_state' = "idle"
    /\ UNCHANGED <<file, now, campaign_vars, agent_calls, current_facilitator, call_notes,
                   sink_vars>>

\* attach_logging of the deployment's logger, for a new room: the hooks are
\* registered with fresh closure variables, the keys and rows of the room
\* do not exist yet, and redis_logger schedules the creation of the call's
\* record when it has facilitator_info and a db_manager
attach_logging(call_id, facilitator_info) ==
    /\ sink_state' = "attached"
    /\ events' = 0
    /\ last_event' = None
    /\ user_id' = <<"unknown">>
    /\ call_start_time' = now
    /\ history' = <<>>
    /\ stream' = <<>>
    /\ xadd_count' = 0
    /\ archive' = None
    /\ tasks' = IF logger = "redis_logger" /\ facilitator_info # None /\ db_manager
                THEN <<[op |-> "save_call_transcript",
                        row |-> CallData(call_id, facilitator_info, now)]>>
                ELSE <<>>
    /\ call_transcripts' = <<>>
    /\ conversation_turns' = <<>>
    /\ message_buffer' = <<>>
    /\ stream_closed' = FALSE
    /\ conversations' = <<>>
    /\ messages' = <<>>
    /\ conversation_logs' = <<>>
    /\ notifications' = <<>>
    /\ UNCHANGED deployment_vars

\* entrypoint and OnboardingAgent.on_enter; the room metadata either
\* carries no facilitator_info or names a row of the worker's DataFrame
Entrypoint ==
    /\ agent_state = "idle"
    /\ agent_calls < MaxAgentCalls
    /\ agent_calls' = agent_calls + 1
    /\ \E info \in {None} \cup {<<[index |-> i]>> : i \in DOMAIN worker_df} :
          /\ current_facilitator' = info
          /\ attach_logging(agent_calls', info)
    /\ call_notes' = <<>>
    /\ agent_state' = "incall"
    /\ UNCHANGED <<file, now, campaign_vars, worker_df>>

take_note ==
    /\ agent_state = "incall"
    /\ Len(call_notes) < MaxNotes
    /\ call_notes' = Append(call_notes, <<"HH:MM: ", "note">>)
    /\ UNCHANGED <<file, now, campaign_vars, agent_calls, worker_df, agent_state,
                   current_facilitator, sink_vars>>

\* what a tool does to the contact file once its note is built
ToolUpdate(status, note, completed) ==
    IF current_facilitator # None
    THEN /\ now' = now + 1
         /\ worker_df' = update_call_status(worker_df, current_facilitator[1].index,
                                            status, note, completed, now')
         /\ file' = save_csv(worker_df', file, csv_writable)
    ELSE UNCHANGED <<file, now, worker_df>>

schedule_callback ==
    /\ agent_state = "incall"
    /\ Len(call_notes) < MaxNotes
    /\ \E reason \in Reasons \ {""} :
          LET note == <<"Callback requested for ", "5pm", " - Reason: ", reason>>
          IN  /\ call_notes' = Append(call_notes, note)
              /\ ToolUpdate("callback_scheduled", note, FALSE)
    /\ UNCHANGED <<campaign_vars, agent_calls, agent_state, current_facilitator,
                   sink_vars>>

mark_not_interested ==
    /\ agent_state = "incall"
    /\ Len(call_notes) < MaxNotes
    /\ \E reason \in Reasons :
          LET note == IF reason # "" THEN <<"Not interested - Reason: ", reason>>
                                     ELSE <<"Not interested">>
          IN  /\ call_notes' = Append(call_notes, note)
              /\ ToolUpdate("not_interested", note, FALSE)
    /\ UNCHANGED <<campaign_vars, agent_calls, agent_state, current_facilitator,
                   sink_vars>>

\* " | ".join(call_notes)
RECURSIVE Join(_)
Join(ns) ==
    IF ns = <<>> THEN <<>>
    ELSE IF Len(ns) = 1 THEN ns[1]
    ELSE ns[1] \o <<" | ">> \o Join(Tail(ns))

\* on_exit: the closing reply may raise, and then the update is never reached;
\* the OnboardingAgent instance, with its fields, is dropped afterwards
on_exit ==
    /\ agent_state = "incall"
    /\ \E replied \in BOOLEAN :
          IF replied
          THEN ToolUpdate("completed",
                          IF call_notes # <<>> THEN Join(call_notes)
                                               ELSE <<"Call completed">>,
                          TRUE)
          ELSE UNCHANGED <<file, now, worker_df>>
    /\ agent_state' = "idle"
    /\ current_facilitator' = None
    /\ call_notes' = <<>>
    /\ UNCHANGED <<campaign_vars, agent_calls, sink_vars>>

\* ------------------------------------- redis_logger: session handlers

\* the session emits its events one after the other, and the clock has
\* moved on when the next one is handled
EventTick == now' = now + 1

\* what the handlers leave alone
UnchangedByHandlers ==
    /\ EventTick
    /\ UNCHANGED <<file, campaign_vars, agent_vars, deployment_vars,
                   sink_state, call_start_time, archive,
                   call_transcripts, conversation_turns>>

\* what a handler run is remembered by: the event, whether it was a final
\* segment, the arguments of its turn write if it made one, the operations
\* on the stores that failed in it, and whether an exception left the handler
HandlerRun(event, is_final, xadd_args, failed, escaped) ==
    [event |-> event, is_final |-> is_final, xadd |-> xadd_args,
     failed |-> failed, escaped |-> escaped]

\* _remember_user: the value user_id has after a participant_joined event
remember_user(current, identity) ==
    IF ~ startswith_agent(identity) THEN identity ELSE current

participant_joined ==
    /\ logger = "redis_logger"
    /\ sink_state = "attached"
    /\ agent_state = "incall"
    /\ events < MaxEvents
    /\ events' = events + 1
    /\ \E identity \in Identities : user_id' = remember_user(user_id, identity)
    /\ last_event' = HandlerRun("participant_joined", FALSE, None, {}, FALSE)
    /\ UnchangedByHandlers
    /\ UNCHANGED <<history, stream, xadd_count, tasks, postgres_vars>>

\* _xadd: rdb.xadd raises when Redis cannot be reached, and nothing after it
\* runs; otherwise the entry is added and, with a db_manager, the task
\* saving the turn is created
xadd(role, text, redis_ok) ==
    IF redis_ok
    THEN /\ xadd_count' = xadd_count + 1
         /\ stream' \in xadd_trim(Append(stream,
                           [id |-> xadd_count', uid |-> user_id, role |-> role,
                            text |-> text, ts |-> now, call_id |-> agent_calls]))
         /\ tasks' = IF db_manager
                     THEN Append(tasks, [op |-> "save_conversation_turn",
                                         row |-> [call_id |-> agent_calls,
                                                  speaker_role |-> role,
                                                  text_content |-> text,
                                                  timestamp |-> now]])
                     ELSE tasks
    ELSE UNCHANGED <<xadd_count, stream, tasks>>

\* the session has put an item into its history and emits
\* conversation_item_added: _on_turn
conversation_item_added ==
    /\ logger = "redis_logger"
    /\ sink_state = "attached"
    /\ agent_state = "incall"
    /\ events < MaxEvents
    /\ events' = events + 1
    /\ \E role \in Roles, text \in Texts, redis_ok \in BOOLEAN :
          /\ history' = Append(history, [role |-> role, text_content |-> text])
          /\ xadd(role, text, redis_ok)
          /\ last_event' = HandlerRun("conversation_item_added", TRUE,
                                      <<[role |-> role, text |-> text]>>,
                                      IF redis_ok THEN {} ELSE {"redis"}, ~ redis_ok)
    /\ UnchangedByHandlers
    /\ UNCHANGED <<user_id, postgres_vars>>

\* variant of WritesSegment: every segment is written
WritesSegment_always(is_final) == TRUE

\* if ev.is_final
WritesSegment(is_final) == is_final

\* user_input_transcribed: _on_stt
user_input_transcribed ==
    /\ logger = "redis_logger"
    /\ sink_state = "attached"
    /\ agent_state = "incall"
    /\ events < MaxEvents
    /\ events' = events + 1
    /\ \E is_final \in BOOLEAN, transcript \in Texts, redis_ok \in BOOLEAN :
          IF WritesSegment(is_final)
          THEN /\ xadd("user", transcript, redis_ok)
               /\ last_event' = HandlerRun("user_input_transcribed", is_final,
                                           <<[role |-> "user", text |-> transcript]>>,
                                           IF redis_ok THEN {} ELSE {"redis"}, ~ redis_ok)
          ELSE /\ last_event' = HandlerRun("user_input_transcribed", is_final, None,
                                           {}, FALSE)
               /\ UNCHANGED <<xadd_count, stream, tasks>>
    /\ UnchangedByHandlers
    /\ UNCHANGED <<user_id, history, postgres_vars>>

\* the event loop runs one of the tasks created with asyncio.create_task to
\* its end; when the database refuses, the task's exception is never
\* retrieved and the row is not written
RunTask ==
    /\ tasks # <<>>
    /\ \E k \in DOMAIN tasks, db_ok \in BOOLEAN :
          /\ tasks' = SubSeq(tasks, 1, k - 1) \o SubSeq(tasks, k + 1, Len(tasks))
          /\ call_transcripts' =
                IF db_ok /\ tasks[k].op = "save_call_transcript"
                THEN save_call_transcript(call_transcripts, tasks[k].row)
                ELSE call_transcripts
          /\ conversation_turns' =
                IF db_ok /\ tasks[k].op = "save_conversation_turn"
                THEN save_conversation_turn(conversation_turns, tasks[k].row)
                ELSE conversation_turns
    /\ UNCHANGED <<file, now, campaign_vars, agent_vars, deployment_vars, sink_state,
                   events, last_event, user_id, call_start_time, history, redis_vars,
                   postgres_vars>>

\* _flush_history, the shutdown callback.  redis_ok: rdb.set succeeds;
\* db_ok: the update to completed succeeds; db_ok_again: the update to
\* failed in the except branch succeeds.  No exception leaves it.
flush_history ==
    /\ logger = "redis_logger"
    /\ sink_state = "attached"
    /\ agent_state = "idle"
    /\ \E redis_ok \in BOOLEAN, db_ok \in BOOLEAN, db_ok_again \in BOOLEAN :
          LET completed == db_update_call_status(call_transcripts, agent_calls, "completed",
                              [call_end_time |-> <<now>>,
                               call_duration_seconds |-> <<now - call_start_time>>,
                               full_transcript |-> <<full_transcript(history)>>])
              failed    == db_update_call_status(call_transcripts, agent_calls, "failed",
                              [notes |-> <<<<"Error during archival: ",
                                             IF redis_ok THEN "database" ELSE "redis">>>>])
          IN  /\ archive' = IF redis_ok THEN <<history>> ELSE archive
              /\ call_transcripts' =
                    IF ~ db_manager THEN call_transcripts
                    ELSE IF redis_ok /\ db_ok THEN completed
                    ELSE IF db_ok_again THEN failed
                    ELSE call_transcripts
              /\ last_event' = HandlerRun("shutdown", FALSE, None,
                    (IF redis_ok THEN {} ELSE {"redis"})
                    \cup (IF db_manager /\ redis_ok /\ ~ db_ok THEN {"database"} ELSE {})
                    \cup (IF db_manager /\ ~ (redis_ok /\ db_ok) /\ ~ db_ok_again
                          THEN {"database_again"} ELSE {}),
                    FALSE)
    /\ sink_state' = "closed"
    /\ UNCHANGED <<file, now, campaign_vars, agent_vars, deployment_vars, events, user_id,
                   call_start_time, history, stream, xadd_count, tasks,
                   conversation_turns, postgres_vars>>

\* ----------------------------------------------------- postgres_logger

UnchangedByPostgresHandlers ==
    /\ EventTick
    /\ UNCHANGED <<file, campaign_vars, agent_vars, deployment_vars, sink_state,
                   call_start_time, history, redis_vars, durable_vars, stream_closed,
                   conversations, messages, conversation_logs, notifications>>

pg_participant_joined ==
    /\ logger = "postgres_logger"
    /\ sink_state = "attached"
    /\ agent_state = "incall"
    /\ events < MaxEvents
    /\ events' = events + 1
    /\ \E identity \in Identities : user_id' = remember_user(user_id, identity)
    /\ last_event' = HandlerRun("participant_joined", FALSE, None, {}, FALSE)
    /\ UnchangedByPostgresHandlers
    /\ UNCHANGED message_buffer

pg_conversation_item_added ==
    /\ logger = "postgres_logger"
    /\ sink_state = "attached"
    /\ agent_state = "incall"
    /\ events < MaxEvents
    /\ events' = events + 1
    /\ \E role \in Roles, text \in Texts :
          /\ message_buffer' = Append(message_buffer,
                                      [role |-> role, content |-> text, timestamp |-> now])
          /\ last_event' = HandlerRun("conversation_item_added", TRUE,
                                      <<[role |-> role, text |-> text]>>, {}, FALSE)
    /\ UnchangedByPostgresHandlers
    /\ UNCHANGED user_id

pg_user_input_transcribed ==
    /\ logger = "postgres_logger"
    /\ sink_state = "attached"
    /\ agent_state = "incall"
    /\ events < MaxEvents
    /\ events' = events + 1
    /\ \E is_final \in BOOLEAN, transcript \in Texts :
          IF WritesSegment(is_final)
          THEN /\ message_buffer' = Append(message_buffer,
                                      [role |-> "user", content |-> transcript,
                                       timestamp |-> now])
               /\ last_event' = HandlerRun("user_input_transcribed", is_final,
                                           <<[role |-> "user", text |-> transcript]>>,
                                           {}, FALSE)
          ELSE /\ last_event' = HandlerRun("user_input_transcribed", is_final, None,
                                           {}, FALSE)
               /\ UNCHANGED message_buffer
    /\ UnchangedByPostgresHandlers
    /\ UNCHANGED user_id

\* the rows postgres_logger inserts into messages for conversation conv_id
\* out of the first n buffered messages
MessageRows(conv_id, n) ==
    [k \in 1..n |-> [conversation_id |-> conv_id,
                     role |-> message_buffer[k].role,
                     content |-> message_buffer[k].content,
                     created_at |-> message_buffer[k].timestamp]]

\* postgres_logger._flush_history.  stop says how far the statements get:
\* 0, the connection or the CREATE statements fail; 1, the INSERT into
\* conversations fails; 1 + k, the k-th INSERT into messages fails;
\* Len(message_buffer) + 2, none fails.  An exception of these statements
\* leaves the function; every statement before it is committed.  The JSON
\* file and the notification come after them, their failures swallowed.
pg_flush_history(event) ==
    \E stop \in 0..(Len(message_buffer) + 2), file_ok \in BOOLEAN,
       notify \in {"unset", "sent", "refused"} :
        LET conv_id  == Len(conversations) + 1
            all_done == stop = Len(message_buffer) + 2
            inserted == IF all_done THEN Len(message_buffer)
                        ELSE IF stop >= 2 THEN stop - 2 ELSE 0
        IN  /\ conversations' =
                  IF stop >= 2
                  THEN Append(conversations,
                              [id |-> conv_id, session_id |-> agent_calls,
                               user_id |-> user_id, started_at |-> call_start_time,
                               ended_at |-> now])
                  ELSE conversations
            /\ messages' = messages \o MessageRows(conv_id, inserted)
            /\ conversation_logs' =
                  IF all_done /\ file_ok
                  THEN Append(conversation_logs,
                              [uid |-> user_id, conversation_id |-> conv_id,
                               conversation |-> message_buffer])
                  ELSE conversation_logs
            /\ notifications' =
                  IF all_done /\ notify = "sent"
                  THEN Append(notifications,
                              [session_id |-> agent_calls, user_id |-> user_id])
                  ELSE notifications
            /\ last_event' = HandlerRun(event, FALSE, None,
                  (IF all_done THEN {} ELSE {"database"})
                  \cup (IF all_done /\ ~ file_ok THEN {"file"} ELSE {})
                  \cup (IF all_done /\ notify = "refused" THEN {"notify"} ELSE {}),
                  ~ all_done)

\* the session emits stream_closed: _on_stream_closed
pg_on_stream_closed ==
    /\ logger = "postgres_logger"
    /\ sink_state = "attached"
    /\ agent_state = "incall"
    /\ ~ stream_closed
    /\ stream_closed' = TRUE
    /\ pg_flush_history("stream_closed")
    /\ UNCHANGED <<file, now, campaign_vars, agent_vars, deployment_vars, sink_state,
                   events, user_id, call_start_time, history, redis_vars, durable_vars,
                   message_buffer>>

\* the job shuts down and runs the callback registered by attach_logging
pg_shutdown ==
    /\ logger = "postgres_logger"
    /\ sink_state = "attached"
    /\ agent_state = "idle"
    /\ sink_state' = "closed"
    /\ pg_flush_history("shutdown")
    /\ UNCHANGED <<file, now, campaign_vars, agent_vars, deployment_vars, events,
                   user_id, call_start_time, history, redis_vars, durable_vars,
                   message_buffer, stream_closed>>

\* ---------------------------------------------------------------- Next

\* calls in which the agent invokes at most one tool before the call ends
OneToolPerCall == call_notes = <<>>

\* a campaign run beside a worker whose calls have at most one tool action
Next ==
    \/ CliAdd
    \/ StartCallingSession
    \/ LoopTop
    \/ MakeCallReturn
    \/ Sleep
    \/ SessionComplete
    \/ WorkerImport
    \/ Entrypoint
    \/ OneToolPerCall /\ take_note
    \/ OneToolPerCall /\ schedule_callback
    \/ OneToolPerCall /\ mark_not_interested
    \/ on_exit

Spec == Init /\ [][Next]_vars

\* campaign runs and calls one after the other: the campaign process moves
\* while the agent is in no call, the worker while no campaign is running.
\* Each process reads only its own DataFrame between its load and its exit,
\* so the campaign meets the same files as it does under Next.
CampaignTurn == agent_state # "incall"

WorkerTurn == pc \in {"idle", "done", "crashed"}

NextCampaign ==
    \/ CliAdd
    \/ CampaignTurn /\ StartCallingSession
    \/ CampaignTurn /\ LoopTop
    \/ CampaignTurn /\ MakeCallReturn
    \/ CampaignTurn /\ Sleep
    \/ CampaignTurn /\ SessionComplete
    \/ CampaignTurn /\ RunAgain
    \/ WorkerTurn /\ WorkerImport
    \/ WorkerTurn /\ Entrypoint
    \/ WorkerTurn /\ OneToolPerCall /\ take_note
    \/ WorkerTurn /\ OneToolPerCall /\ schedule_callback
    \/ WorkerTurn /\ OneToolPerCall /\ mark_not_interested
    \/ WorkerTurn /\ on_exit

SpecCampaign == Init /\ [][NextCampaign]_vars

\* one worker and the calls it takes, the contact file as it was found; the
\* deployment is drawn among: redis_logger with the database module,
\* redis_logger without it, postgres_logger
InitSink ==
    /\ file \in InitialFiles
    /\ now = 0
    /\ df = <<>>
    /\ pc = "idle"
    /\ max_calls_per_session = 1
    /\ stats = get_stats(<<>>)
    /\ call_count = 0
    /\ successful_calls = 0
    /\ failed_calls = 0
    /\ facilitator = None
    /\ call_result = None
    /\ session_result = None
    /\ gateway_log = <<>>
    /\ sessions = 0
    /\ agent_calls = 0
    /\ worker_df = <<>>
    /\ agent_state = "down"
    /\ current_facilitator = None
    /\ call_notes = <<>>
    /\ logger \in Loggers
    /\ db_manager \in (IF logger = "redis_logger" THEN BOOLEAN ELSE {FALSE})
    /\ twilio_client = TRUE
    /\ livekit_client = TRUE
    /\ call_interval_seconds = CALL_INTERVAL_SECONDS
    /\ csv_writable = TRUE
    /\ NoLogging

NextSink ==
    \/ WorkerImport
    \/ Entrypoint
    \/ on_exit
    \/ participant_joined
    \/ conversation_item_added
    \/ user_input_transcribed
    \/ RunTask
    \/ flush_history
    \/ pg_participant_joined
    \/ pg_conversation_item_added
    \/ pg_user_input_transcribed
    \/ pg_on_stream_closed
    \/ pg_shutdown

SpecSink == InitSink /\ [][NextSink]_vars

\* one campaign run under every deployment of the campaign process: the
\* credentials of the carrier and of LiveKit present or absent,
\* CALL_INTERVAL_SECONDS set to 0 or more, the contact file writable or not
InitDeployment ==
    /\ file \in InitialFiles
    /\ now = 0
    /\ df = <<>>
    /\ pc = "idle"
    /\ max_calls_per_session = 1
    /\ stats = get_stats(<<>>)
    /\ call_count = 0
    /\ successful_calls = 0
    /\ failed_calls = 0
    /\ facilitator = None
    /\ call_result = None
    /\ session_result = None
    /\ gateway_log = <<>>
    /\ sessions = 0
    /\ agent_calls = 0
    /\ worker_df = <<>>
    /\ agent_state = "down"
    /\ current_facilitator = None
    /\ call_notes = <<>>
    /\ logger = "redis_logger"
    /\ db_manager = TRUE
    /\ twilio_client \in BOOLEAN
    /\ livekit_client \in BOOLEAN
    /\ call_interval_seconds \in 0..MaxInterval
    /\ csv_writable \in BOOLEAN
    /\ NoLogging

NextDeployment ==
    \/ CliAdd
    \/ StartCallingSession
    \/ LoopTop
    \/ MakeCallReturn
    \/ Sleep
    \/ SessionComplete

SpecDeployment == InitDeployment /\ [][NextDeployment]_vars

\* the worker alone, its calls with up to MaxNotes tool actions, and
\* contacts added from the command line meanwhile
NextWorker ==
    \/ CliAdd
    \/ WorkerImport
    \/ Entrypoint
    \/ take_note
    \/ schedule_callback
    \/ mark_not_interested
    \/ on_exit

SpecWorker == Init /\ [][NextWorker]_vars

\* -------------------------------------------------- start_calling process
\* python main.py start_calling: main.py is imported (csv_manager =
\* CSVManager(), the DataFrame worker_df of that process) and
\* make_outbound_calls runs its own loop; the worker's entrypoint does not
\* run in that process.

\* the dial attempts one run of make_outbound_calls is followed for
MaxAttempts == 3

\* int(os.getenv("CALL_INTERVAL_SECONDS", "60"))
OUTBOUND_CALL_INTERVAL_SECONDS == 60

\* await asyncio.sleep(5), the short break that ends every round
SHORT_BREAK_SECONDS == 5

\* make_outbound_calls up to the while statement
make_outbound_calls ==
    /\ agent_state = "idle"
    /\ pc = "idle"
    /\ call_count' = 0
    /\ \E m \in 1..MaxCalls : max_calls_per_session' = m
    /\ facilitator' = None
    /\ call_result' = None
    /\ gateway_log' = <<>>
    /\ pc' = "outbound"
    /\ UNCHANGED <<file, now, df, stats, successful_calls, failed_calls,
                   session_result, sessions, agent_vars, sink_vars>>

\* room_name = f"onboarding-call-{facilitator['index']}-{timestamp}"
OutboundRoomName(index, t) ==
    <<"onboarding-call-", ToString(index), "-", ToString(timestamp(t))>>

\* the while test, get_next_facilitator, the break when there is nobody to
\* call, and the in_progress update, up to the await of the originate
OutboundLoopTop ==
    /\ pc = "outbound"
    /\ IF WhileTest(call_count, max_calls_per_session)
          /\ get_next_facilitator(worker_df) # None
       THEN /\ Len(gateway_log) < MaxAttempts
            /\ now' = now + 1
            /\ facilitator' = get_next_facilitator(worker_df)
            /\ worker_df' = update_call_status(worker_df, facilitator'[1].index,
                                               "in_progress", <<"Call initiated">>,
                                               FALSE, now')
            /\ file' = save_csv(worker_df', file, csv_writable)
            /\ call_result' = None
            /\ pc' = "outbound_originate"
       ELSE /\ facilitator' = IF WhileTest(call_count, max_calls_per_session)
                              THEN None ELSE facilitator
            /\ pc' = "outbound_done"
            /\ UNCHANGED <<file, now, worker_df, call_result>>
    /\ UNCHANGED <<df, max_calls_per_session, stats, call_count, successful_calls,
                   failed_calls, session_result, gateway_log, sessions, agent_calls,
                   agent_state, current_facilitator, call_notes, sink_vars>>

\* the body of the try statement after the await and its except clause:
\* what becomes of the DataFrame and of call_count, and whether the
\* interval sleep follows.  reply is what initiate_outbound_call gave
\* (outcome "ok" or "fail") or the exception raised (outcome "raise").
outbound_round(d, count, index, reply, t) ==
    CASE reply.outcome = "ok" ->
           [df |-> d, call_count |-> count + 1, interval |-> TRUE]
      [] reply.outcome = "fail" ->
           [df |-> update_call_status(d, index, "failed",
                       <<"Call initiation failed: ", reply.error>>, FALSE, t),
            call_count |-> count, interval |-> FALSE]
      [] reply.outcome = "raise" ->
           [df |-> update_call_status(d, index, "failed",
                       <<"Exception during call: ", reply.error>>, FALSE, t),
            call_count |-> count, interval |-> FALSE]

\* from the gateway's answer to the end of the try statement;
\* start_agent_session only writes a log line
OutboundReturn ==
    /\ pc = "outbound_originate"
    /\ now' = now + 1
    /\ \E raised \in BOOLEAN, created \in BOOLEAN, accepted \in BOOLEAN,
          sid \in {"CA1"}, err \in {"cancelled"} :
          LET index == facilitator[1].index
              room  == OutboundRoomName(index, now)
              reply == IF raised
                       THEN [outcome |-> "raise", call_sid |-> None, error |-> err]
                       ELSE initiate_outbound_call(livekit_client, created,
                                                   twilio_client, accepted, sid)
              round == outbound_round(worker_df, call_count, index, reply, now')
          IN  /\ gateway_log' = Append(gateway_log,
                                       [index |-> index, room |-> room, reply |-> reply,
                                        dialed |-> reply.call_sid # None, at |-> now])
              /\ worker_df' = round.df
              /\ file' = IF reply.outcome = "ok"
                         THEN file
                         ELSE save_csv(worker_df', file, csv_writable)
              /\ call_count' = round.call_count
              /\ call_result' = IF raised
                                THEN call_result
                                ELSE <<[success |-> reply.outcome = "ok",
                                        error |-> <<reply.error>>]>>
              /\ pc' = IF round.interval THEN "outbound_interval" ELSE "outbound_break"
    /\ UNCHANGED <<df, max_calls_per_session, stats, successful_calls, failed_calls,
                   facilitator, session_result, sessions, agent_calls, agent_state,
                   current_facilitator, call_notes, sink_vars>>

\* await asyncio.sleep(int(os.getenv("CALL_INTERVAL_SECONDS", "60"))) is over
OutboundInterval ==
    /\ pc = "outbound_interval"
    /\ now' = now + call_interval_seconds * TicksPerSecond
    /\ pc' = "outbound_break"
    /\ UNCHANGED <<file, campaign_vars_but_pc, agent_vars, sink_vars>>

\* await asyncio.sleep(5) is over, back to the while statement
OutboundBreak ==
    /\ pc = "outbound_break"
    /\ now' = now + SHORT_BREAK_SECONDS * TicksPerSecond
    /\ pc' = "outbound"
    /\ UNCHANGED <<file, campaign_vars_but_pc, agent_vars, sink_vars>>

InitOutbound ==
    /\ file \in InitialFiles
    /\ now = 0
    /\ df = <<>>
    /\ pc = "idle"
    /\ max_calls_per_session = 1
    /\ stats = get_stats(<<>>)
    /\ call_count = 0
    /\ successful_calls = 0
    /\ failed_calls = 0
    /\ facilitator = None
    /\ call_result = None
    /\ session_result = None
    /\ gateway_log = <<>>
    /\ sessions = 0
    /\ agent_calls = 0
    /\ worker_df = <<>>
    /\ agent_state = "down"
    /\ current_facilitator = None
    /\ call_notes = <<>>
    /\ logger = "redis_logger"
    /\ db_manager = TRUE
    /\ twilio_client \in BOOLEAN
    /\ livekit_client \in BOOLEAN
    /\ call_interval_seconds = OUTBOUND_CALL_INTERVAL_SECONDS
    /\ csv_writable \in BOOLEAN
    /\ NoLogging

NextOutbound ==
    \/ CliAdd
    \/ WorkerImport
    \/ make_outbound_calls
    \/ OutboundLoopTop
    \/ OutboundReturn
    \/ OutboundInterval
    \/ OutboundBreak

SpecOutbound == InitOutbound /\ [][NextOutbound]_vars

TypeOK ==
    /\ now \in 0..(2 * MaxSessions * MaxCalls + MaxAgentCalls * (MaxNotes + 1 + MaxEvents)
                    + MaxSessions * MaxCalls * call_interval_seconds * TicksPerSecond
                    + MaxAttempts * (2 + (call_interval_seconds + SHORT_BREAK_SECONDS)
                                            * TicksPerSecond))
    /\ call_interval_seconds \in Nat
    /\ \A k \in DOMAIN gateway_log : gateway_log[k].reply.outcome \in Outcomes
    /\ sessions \in 0..MaxSessions
    /\ pc \in {"idle", "loop", "originate", "sleep", "final", "done", "crashed",
               "outbound", "outbound_originate", "outbound_interval",
               "outbound_break", "outbound_done"}
    /\ Len(file) <= MaxContacts
    /\ agent_state \in {"down", "idle", "incall"}
    /\ logger \in Loggers
    /\ sink_state \in {"none", "attached", "closed"}
    /\ events \in 0..MaxEvents
    /\ Len(history) <= MaxEvents
    /\ xadd_count <= MaxEvents
    /\ Len(tasks) <= MaxEvents + 1

\* ============================================================ properties

\* every DataFrame a CSVManager holds, and the file as a fresh one would load it
Stores == {df, worker_df, load_csv(file)}

\* the row of d that get_next_facilitator returns, 0 when it returns None
Selected(d) == IF get_next_facilitator(d) = None THEN 0
               ELSE get_next_facilitator(d)[1].index

\* the last request the gateway received in this session
LastRequest == gateway_log[Len(gateway_log)]

\* make_call has returned and the next attempt has not begun
Returned == call_result # None /\ pc \in {"sleep", "loop", "final", "done"}

\* C1: get_next_facilitator never returns a contact whose
\* onboarding_completed is true, and it returns None exactly when no
\* contact with onboarding_completed = false exists.
C1_NeverReturnsCompleted ==
    \A d \in Stores :
        /\ Selected(d) # 0 =>
              /\ d[Selected(d)].onboarding_completed = FALSE
              /\ get_next_facilitator(d)[1].onboarding_completed = FALSE
        /\ Selected(d) = 0 <=> ~ \E i \in DOMAIN d : d[i].onboarding_completed = FALSE

\* the campaign passed over a completed contact and took another one
C1_Witness ==
    /\ pc = "originate"
    /\ \E i \in DOMAIN df :
          /\ df[i].onboarding_completed = TRUE
          /\ i < facilitator[1].index

\* C2: the contact returned has the least call_attempts among the contacts
\* not completed, and among those with that least count it has no
\* last_called if one of them has none, otherwise the earliest last_called.
C2_SelectionOrder ==
    \A d \in Stores :
        Selected(d) # 0 =>
            LET r        == Selected(d)
                eligible == {i \in DOMAIN d : d[i].onboarding_completed = FALSE}
                least    == {i \in eligible :
                               \A j \in eligible : d[i].call_attempts <= d[j].call_attempts}
            IN  /\ r \in least
                /\ (\E i \in least : d[i].last_called = NaT) => d[r].last_called = NaT
                /\ (\A i \in least : d[i].last_called # NaT) =>
                       \A i \in least : d[r].last_called <= d[i].last_called

\* the campaign took, of two tried contacts with equal counts, the one
\* called longer ago
C2_Witness ==
    /\ pc = "originate"
    /\ facilitator[1].call_attempts > 0
    /\ \E j \in DOMAIN df :
          /\ j # facilitator[1].index
          /\ df[j].onboarding_completed = FALSE
          /\ df[j].call_attempts = facilitator[1].call_attempts
          /\ df[j].last_called > facilitator[1].last_called

\* C3: one dial attempt (in_progress, originate, called or failed) raises the
\* contact's call_attempts by exactly one.
C3_OneAttemptOneCount ==
    Returned =>
        df[facilitator[1].index].call_attempts = facilitator[1].call_attempts + 1

\* C4: a session never makes more than max_calls_per_session dial attempts,
\* and when at least that many contacts were eligible it makes exactly that
\* many and stops while eligible contacts remain.
C4_AtMostMaxCalls ==
    /\ Len(gateway_log) + (IF pc = "originate" THEN 1 ELSE 0) <= max_calls_per_session
    /\ call_count <= max_calls_per_session
    /\ (pc = "done" /\ stats.pending >= max_calls_per_session) =>
          /\ Len(gateway_log) = max_calls_per_session
          /\ session_result[1].total_calls = max_calls_per_session
          /\ Selected(df) # 0

C4_Witness ==
    /\ pc = "done"
    /\ max_calls_per_session = 2
    /\ stats.pending >= 2
    /\ Len(gateway_log) = 2
    /\ Selected(df) # 0

\* C5: a session with max_calls_per_session >= 2 and exactly one eligible
\* contact stops after exactly one dial attempt.
C5_OneEligibleOneAttempt ==
    (pc = "done" /\ max_calls_per_session >= 2 /\ stats.pending = 1) =>
        Len(gateway_log) = 1

\* C6: an exception raised during a dial attempt leaves the contact failed
\* with the exception text in its notes, does not leave make_call, and the
\* campaign goes on: the attempt is counted and the loop is where it would
\* be after any other attempt.
C6_ExceptionContained ==
    /\ pc # "crashed"
    /\ (gateway_log # <<>> /\ pc # "originate" /\ LastRequest.reply.outcome = "raise") =>
          LET row == df[LastRequest.index]
          IN  /\ call_result # None
              /\ call_result[1].success = FALSE
              /\ row.status = "failed"
              /\ row.notes # <<>>
              /\ row.notes[Len(row.notes)] =
                    <<"Exception during call: ", LastRequest.reply.error>>
              /\ call_count = Len(gateway_log)
              /\ pc \in {"sleep", "loop", "final", "done"}
              /\ pc \in {"final", "done"} => call_count = max_calls_per_session

\* after an attempt that raised, the campaign is dialing the next candidate
C6_Witness ==
    /\ pc = "originate"
    /\ gateway_log # <<>>
    /\ LastRequest.reply.outcome = "raise"

\* C7: while originate is awaited the contact is in_progress; when make_call
\* returns the contact is called if and only if originate reported success,
\* otherwise failed with the gateway's error message in the note appended;
\* it is never left in_progress.
C7_CalledIffOriginateSucceeded ==
    /\ pc = "originate" => df[facilitator[1].index].status = "in_progress"
    /\ Returned =>
          LET row == df[facilitator[1].index]
              ok  == LastRequest.reply.outcome = "ok"
          IN  /\ LastRequest.index = facilitator[1].index
              /\ row.status = "called" <=> ok
              /\ ~ ok => /\ row.status = "failed"
                         /\ \E k \in DOMAIN row.notes[Len(row.notes)] :
                               row.notes[Len(row.notes)][k] = LastRequest.reply.error
              /\ row.status # "in_progress"

\* make_call returned after the gateway refused the call
C7_Witness ==
    /\ Returned
    /\ LastRequest.reply.outcome = "fail"
    /\ df[facilitator[1].index].status = "failed"

\* C8: the counters returned at the end of a session add up, count the dial
\* attempts made and the successful originates, and final_stats is get_stats
\* of the store at loop end.
C8_SummaryCounts ==
    pc = "done" =>
        LET r == session_result[1]
        IN  /\ r.total_calls = r.successful_calls + r.failed_calls
            /\ r.total_calls = Len(gateway_log)
            /\ r.successful_calls =
                  Cardinality({k \in DOMAIN gateway_log : gateway_log[k].reply.outcome = "ok"})
            /\ r.final_stats.total = Len(df)
            /\ r.final_stats.pending =
                  Cardinality({i \in DOMAIN df : df[i].onboarding_completed = FALSE})
            /\ r.final_stats.completed =
                  Cardinality({i \in DOMAIN df : df[i].onboarding_completed = TRUE})
            /\ r.final_stats.failed =
                  Cardinality({i \in DOMAIN df : df[i].status = "failed"})

\* a session of two attempts, one successful and one not, has ended
C8_Witness ==
    /\ pc = "done"
    /\ session_result[1].successful_calls = 1
    /\ session_result[1].failed_calls = 1
    /\ session_result[1].final_stats.failed = 1

\* C9: a contact whose status is not_interested is never returned by
\* get_next_facilitator to a campaign and never dialed.
C9_NotInterestedNeverDialed ==
    pc = "originate" => facilitator[1].status # "not_interested"

\* C10: a contact whose dial attempt failed stays eligible, and it is
\* returned only when no other eligible contact has fewer call_attempts.
C10_FailedStaysEligible ==
    \A i \in DOMAIN df :
        df[i].status = "failed" =>
            /\ get_next_facilitator(<<df[i]>>) # None
            /\ Selected(df) = i =>
                  \A j \in DOMAIN df :
                      get_next_facilitator(<<df[j]>>) # None =>
                          df[i].call_attempts <= df[j].call_attempts

\* the campaign dials a contact whose earlier attempt failed
C10_Witness ==
    /\ pc = "originate"
    /\ facilitator[1].status = "failed"

\* C11: in every copy of the contact store, whatever the campaign, the tools
\* and on_exit have written, a contact whose status is completed has
\* onboarding_completed = TRUE.
C11_CompletedImpliesFlag ==
    \A d \in Stores :
        \A i \in DOMAIN d :
            d[i].status = "completed" => d[i].onboarding_completed = TRUE

\* on_exit has marked a contact completed in the worker's store and in the
\* file while the campaign's copy still shows it as dialed
C11_Witness ==
    \E i \in DOMAIN worker_df :
        /\ worker_df[i].status = "completed"
        /\ i \in DOMAIN file
        /\ file[i].status = "completed"
        /\ i \in DOMAIN df
        /\ df[i].status \in {"called", "failed"}

\* a handler of the attached logger has just run on a session event
HandlerStep == events' = events + 1

\* the rows of the running call in call_transcripts
CallSessions == {i \in DOMAIN call_transcripts : call_transcripts[i].call_id = agent_calls}

\* C12: for every turn handed to _xadd the two writes are independent: when
\* the write to the Redis stream fails, the write to the database is still
\* issued, and a failing database write leaves the stream entry in place.
C12_IndependentWrites ==
    [][/\ (HandlerStep /\ logger = "redis_logger" /\ db_manager
              /\ last_event'.xadd # None) =>
             /\ Len(tasks') = Len(tasks) + 1
             /\ tasks'[Len(tasks')].op = "save_conversation_turn"
             /\ tasks'[Len(tasks')].row.text_content = last_event'.xadd[1].text
       /\ (Len(tasks') < Len(tasks) /\ sink_state' = sink_state) => stream' = stream]_vars

\* C13: no failure of Redis or of the database while a committed turn or a
\* final segment is handled lets an exception leave the handler.
C13_HandlerNeverRaises ==
    (last_event # None
        /\ last_event.event \in {"conversation_item_added", "user_input_transcribed"})
    => ~ last_event.escaped

\* C14: user_input_transcribed makes a turn write, with role user and through
\* the path conversation_item_added uses, if and only if is_final is true; a
\* segment that is not final changes neither the stream nor the database nor
\* the buffer.
C14_FinalSegmentsOnly ==
    [][(HandlerStep /\ last_event'.event = "user_input_transcribed") =>
          /\ last_event'.xadd # None <=> last_event'.is_final
          /\ ~ last_event'.is_final =>
                UNCHANGED <<redis_vars, durable_vars, message_buffer, conversations,
                            messages>>
          /\ (last_event'.is_final /\ logger = "redis_logger") =>
                /\ last_event'.xadd[1].role = "user"
                /\ ~ last_event'.escaped =>
                      /\ xadd_count' = xadd_count + 1
                      /\ stream'[Len(stream')].id = xadd_count'
                      /\ stream'[Len(stream')].role = "user"
                      /\ stream'[Len(stream')].text = last_event'.xadd[1].text
                      /\ db_manager =>
                            /\ tasks' = Append(tasks, tasks'[Len(tasks')])
                            /\ tasks'[Len(tasks')].op = "save_conversation_turn"
                            /\ tasks'[Len(tasks')].row.speaker_role = "user"
                            /\ tasks'[Len(tasks')].row.text_content = last_event'.xadd[1].text
          /\ (last_event'.is_final /\ logger = "postgres_logger") =>
                /\ Len(message_buffer') = Len(message_buffer) + 1
                /\ message_buffer'[Len(message_buffer')].role = "user"
                /\ message_buffer'[Len(message_buffer')].content = last_event'.xadd[1].text]_vars

\* a segment that was not final has been dropped after a turn had been
\* written to the stream and handed to the database
C14_Witness ==
    /\ last_event # None
    /\ last_event.event = "user_input_transcribed"
    /\ ~ last_event.is_final
    /\ Len(stream) = 1
    /\ Len(tasks) + Len(conversation_turns) = 1

\* C15: once a participant whose identity does not start with "agent" has
\* joined, no later participant_joined event of the call changes user_id.
C15_IdentityBoundOnce ==
    [][(HandlerStep /\ user_id # <<"unknown">>) => user_id' = user_id]_vars

\* C16: the stream of a room never holds more than maxlen entries, and the
\* entries it holds are the ones written last, in the order written.
C16_StreamCapped ==
    /\ Len(stream) <= maxlen
    /\ \A k \in DOMAIN stream : stream[k].id = xadd_count - Len(stream) + k

\* C17: once _flush_history has run with the database accepting its
\* statements, call_transcripts holds a row of the call with call_status
\* completed, call_end_time set, call_duration_seconds = call_end_time -
\* call_start_time >= 0 and full_transcript set, and no row of the call is
\* left connected or initiated.
C17_ShutdownCompletesSession ==
    (logger = "redis_logger" /\ db_manager /\ sink_state = "closed"
        /\ last_event.failed \cap {"database", "database_again"} = {})
    => /\ CallSessions # {}
       /\ \A i \in CallSessions :
             LET row == call_transcripts[i]
             IN  /\ row.call_status = "completed"
                 /\ row.call_end_time # None
                 /\ row.call_duration_seconds # None
                 /\ row.call_duration_seconds[1] = row.call_end_time[1] - row.call_start_time
                 /\ row.call_duration_seconds[1] >= 0
                 /\ row.full_transcript # None

\* C18: when the archival in _flush_history fails, no exception leaves
\* _flush_history, and when the database accepts the update that follows,
\* the row of the call has call_status failed and a note saying why.
C18_ArchivalFailureMarked ==
    (logger = "redis_logger" /\ db_manager /\ sink_state = "closed"
        /\ last_event.failed \cap {"redis", "database"} # {})
    => /\ ~ last_event.escaped
       /\ "database_again" \notin last_event.failed =>
             /\ CallSessions # {}
             /\ \A i \in CallSessions :
                   /\ call_transcripts[i].call_status = "failed"
                   /\ call_transcripts[i].notes # None

\* C19: when writing the archive key to Redis fails at shutdown and the
\* database accepts its statements, every row of the call is still updated
\* to completed with call_end_time, call_duration_seconds and
\* full_transcript.
C19_ArchiveKeyIndependent ==
    (logger = "redis_logger" /\ db_manager /\ sink_state = "closed"
        /\ "redis" \in last_event.failed
        /\ "database_again" \notin last_event.failed)
    => \A i \in CallSessions :
          /\ call_transcripts[i].call_status = "completed"
          /\ call_transcripts[i].call_end_time # None
          /\ call_transcripts[i].call_duration_seconds # None
          /\ call_transcripts[i].full_transcript # None

\* the rows of messages that belong to the conversation stored last
LastArchived ==
    SelectSeq(messages, LAMBDA m : m.conversation_id = Len(conversations))

\* C20: the shutdown hook run a second time for the same call, no turn
\* having been committed since the first run stored the conversation, stores
\* no further conversation or message.
C20_ArchivalIdempotent ==
    [][(/\ last_event' # None
        /\ last_event'.event \in {"shutdown", "stream_closed"}
        /\ last_event' # last_event \/ sink_state' # sink_state
                                     \/ stream_closed' # stream_closed
        /\ conversations # <<>>
        /\ LastArchived = MessageRows(Len(conversations), Len(message_buffer)))
       => /\ Len(conversations') = Len(conversations)
          /\ Len(messages') = Len(messages)]_vars

\* how often the archival routine of the attached logger has run for the
\* call: redis_logger's runs as the shutdown callback, postgres_logger's as
\* the shutdown callback and as the handler of stream_closed
ArchivalRuns ==
    (IF sink_state = "closed" THEN 1 ELSE 0)
    + (IF logger = "postgres_logger" /\ stream_closed THEN 1 ELSE 0)

\* C21: for every call the archival routine runs exactly once: it has run
\* once when the job of the call has shut down, and it never runs a second
\* time.
C21_ArchivedExactlyOnce ==
    /\ ArchivalRuns <= 1
    /\ sink_state = "closed" => ArchivalRuns = 1

\* the rows of the call that the shutdown callback has completed
CompletedSessions ==
    {i \in CallSessions : call_transcripts[i].call_status = "completed"}

\* C22: the full_transcript stored at archival has exactly one line
\* "<Role>: <text>\n" per committed turn, in the order of commit, Role being
\* Agent for a turn of role assistant and Facilitator for a turn of role
\* user.
C22_TranscriptLines ==
    (logger = "redis_logger" /\ sink_state = "closed") =>
        \A i \in CompletedSessions :
            LET t == call_transcripts[i].full_transcript[1]
            IN  /\ Len(t) = 4 * Len(history)
                /\ \A k \in DOMAIN history :
                      /\ history[k].role = "assistant" => t[4 * k - 3] = "Agent"
                      /\ history[k].role = "user" => t[4 * k - 3] = "Facilitator"
                      /\ t[4 * k - 2] = ": "
                      /\ t[4 * k - 1] = history[k].text_content
                      /\ t[4 * k] = "\n"

\* the call of scenario B has been archived: an agent turn, a turn of the
\* facilitator and another agent turn, and the row of the call holds
\* "Agent: Hi\nFacilitator: Hello\nAgent: Hi\n"
C22_Witness ==
    /\ logger = "redis_logger"
    /\ sink_state = "closed"
    /\ CompletedSessions # {}
    /\ Len(history) = 3
    /\ history[1] = [role |-> "assistant", text_content |-> "Hi"]
    /\ history[2] = [role |-> "user", text_content |-> "Hello"]
    /\ history[3].role = "assistant"
    /\ \A i \in CompletedSessions :
          call_transcripts[i].full_transcript[1]
              = <<"Agent", ": ", "Hi", "\n", "Facilitator", ": ", "Hello", "\n",
                  "Agent", ": ", history[3].text_content, "\n">>

\* the ConversationTurn rows stored for the call
CallTurns ==
    SelectSeq(conversation_turns, LAMBDA r : r.call_id = agent_calls)

\* the orders in which get_conversation_turns may return the n rows of a
\* call: ORDER BY timestamp, rows of equal timestamp in any order
TimestampOrders(rows) ==
    {p \in [DOMAIN rows -> DOMAIN rows] :
        /\ \A k, l \in DOMAIN rows : k # l => p[k] # p[l]
        /\ \A k, l \in DOMAIN rows :
              k < l => rows[p[k]].timestamp <= rows[p[l]].timestamp}

\* C23: once the call is archived and every write handed to the database
\* has been made, the lines of full_transcript correspond one to one, in
\* order, to the ConversationTurn rows of the call taken in timestamp order,
\* with the same role and the same text.
C23_TranscriptMatchesTurns ==
    (logger = "redis_logger" /\ sink_state = "closed" /\ tasks = <<>>) =>
        \A i \in CompletedSessions :
            LET t == call_transcripts[i].full_transcript[1]
            IN  /\ Len(t) = 4 * Len(CallTurns)
                /\ \E p \in TimestampOrders(CallTurns) :
                      \A k \in DOMAIN CallTurns :
                          /\ t[4 * k - 3] = "Agent"
                                <=> CallTurns[p[k]].speaker_role = "assistant"
                          /\ t[4 * k - 1] = CallTurns[p[k]].text_content

\* the worker is in a call bound to row i of the contact file
BoundTo(i) == agent_state = "incall" /\ current_facilitator = <<[index |-> i]>>

\* the campaign process writes the contact file in this step
SchedulerWrite == pc \in {"loop", "originate"} /\ df' # df

\* C24: schedule_callback invoked during a call sets the status of the
\* bound contact to callback_scheduled and appends the note with the reason
\* to its notes, and no write of the Scheduler for that dial attempt, made
\* before or after it, undoes this while the call lasts.
C24_CallbackStands ==
    [][\A i \in DOMAIN file :
          /\ (BoundTo(i) /\ Len(call_notes') = Len(call_notes) + 1
                 /\ call_notes'[Len(call_notes')][1] = "Callback requested for ")
             => /\ i \in DOMAIN file'
                /\ file'[i].status = "callback_scheduled"
                /\ file'[i].notes = Append(file[i].notes, call_notes'[Len(call_notes')])
          /\ (BoundTo(i) /\ file[i].status = "callback_scheduled" /\ SchedulerWrite
                 /\ ~ (pc = "loop" /\ facilitator' = <<>>)
                 /\ (pc = "loop" => facilitator'[1].index # i))
             => /\ i \in DOMAIN file'
                /\ file'[i].status = "callback_scheduled"
                /\ file'[i].notes = file[i].notes]_vars

\* the dial attempts of the running campaign that the gateway accepted
DialedCalls == {k \in DOMAIN gateway_log : gateway_log[k].reply.outcome = "ok"}

\* the conversation sessions the worker has taken and seen to their end
SessionsCompleted == agent_calls - (IF agent_state = "incall" THEN 1 ELSE 0)

\* C27: the Scheduler has fetched the next candidate and started its dial
\* attempt only when every call it dialed before has had its conversation
\* session, and that session has completed.
C27_OneCallAtATime ==
    pc = "originate" => Cardinality(DialedCalls) <= SessionsCompleted

\* the notes a is a prefix of the notes b
IsPrefix(a, b) == Len(a) <= Len(b) /\ SubSeq(b, 1, Len(a)) = a

\* C30: after every write of the Scheduler or of a tool the notes a contact
\* record held before the write are a prefix of the notes it holds after
\* it, and a write with an empty note leaves the notes as they were.
C30_NotesAppendOnly ==
    [][/\ now' = now + 1 =>
             \A i \in DOMAIN file \cap DOMAIN file' :
                 IsPrefix(file[i].notes, file'[i].notes)
       /\ \A d \in Stores : \A i \in DOMAIN d :
             update_call_status(d, i, "called", <<>>, FALSE, now)[i].notes = d[i].notes]_vars

\* C25: a tool invoked a second time in a call, with the arguments of the
\* invocation before it, leaves the bound contact record as the first
\* invocation left it.
C25_ToolsIdempotent ==
    [][\A i \in DOMAIN worker_df :
          (/\ BoundTo(i)
           /\ call_notes # <<>>
           /\ call_notes' = Append(call_notes, call_notes[Len(call_notes)])
           /\ now' = now + 1)
          => /\ worker_df'[i] = worker_df[i]
             /\ file'[i] = worker_df[i]]_vars

\* C26: whenever initiate_outbound_call reports success the carrier has
\* accepted the call and call_sid is the identifier it gave; with the
\* carrier's credentials absent, or the dial request rejected, it reports
\* failure.
C26_SuccessMeansDialed ==
    \A k \in DOMAIN gateway_log :
        gateway_log[k].reply.outcome = "ok" =>
            /\ twilio_client
            /\ gateway_log[k].dialed
            /\ gateway_log[k].reply.call_sid # None

\* C28: the room names of two distinct dial attempts are different.
C28_RoomNamesDistinct ==
    \A k, l \in DOMAIN gateway_log :
        k # l => gateway_log[k].room # gateway_log[l].room

\* C29: update_call_status called by the Scheduler either applies all its
\* changes to the record and persists them, or leaves the stored record
\* and the record in memory unchanged.
C29_UpdateAtomic ==
    [][(pc \in {"loop", "originate"} /\ now' = now + 1) =>
          LET i == facilitator'[1].index
          IN  \/ /\ df'[i].call_attempts = df[i].call_attempts + 1
                 /\ df'[i].last_called = now'
                 /\ Len(df'[i].notes) = Len(df[i].notes) + 1
                 /\ i \in DOMAIN file'
                 /\ file'[i] = df'[i]
              \/ /\ df'[i] = df[i]
                 /\ file' = file]_vars

\* C35: no update of a contact record is lost when the Scheduler and the
\* agent both write the contact file: a write changes the stored file by
\* the one update it makes, the written row moving on from what the file
\* held, every other row staying as the file held it.
C35_NoLostUpdate ==
    [][now' = now + 1 =>
          \A j \in DOMAIN file \cap DOMAIN file' :
                \/ file'[j] = file[j]
                \/ /\ file'[j].call_attempts = file[j].call_attempts + 1
                   /\ IsPrefix(file[j].notes, file'[j].notes)
                   /\ file[j].onboarding_completed => file'[j].onboarding_completed]_vars

\* C36: once a tool has set the bound contact to callback_scheduled or
\* not_interested, the end of the call leaves that status in place and
\* onboarding_completed false.
C36_ToolStatusSurvivesExit ==
    [][\A i \in DOMAIN worker_df :
          (/\ BoundTo(i)
           /\ agent_state' = "idle"
           /\ worker_df[i].status \in {"callback_scheduled", "not_interested"}
           /\ ~ worker_df[i].onboarding_completed)
          => /\ worker_df'[i].status = worker_df[i].status
             /\ ~ worker_df'[i].onboarding_completed]_vars

\* C37: every row of conversation_turns carries a call_id for which
\* call_transcripts holds a row.
C37_NoOrphanTurns ==
    \A k \in DOMAIN conversation_turns :
        \E i \in DOMAIN call_transcripts :
            call_transcripts[i].call_id = conversation_turns[k].call_id

\* C40: no exception leaves postgres_logger's _flush_history run at
\* shutdown, whether an insert into the database or the notification
\* request fails.
C40_FlushContained ==
    (logger = "postgres_logger" /\ last_event # None
        /\ last_event.event = "shutdown")
    => ~ last_event.escaped


\* the turn rows of the running call that are stored or still to be stored
EarlierTimestamps ==
    {conversation_turns[k].timestamp :
        k \in {l \in DOMAIN conversation_turns :
                  conversation_turns[l].call_id = agent_calls}}
    \cup {tasks[k].row.timestamp :
             k \in {l \in DOMAIN tasks :
                       /\ tasks[l].op = "save_conversation_turn"
                       /\ tasks[l].row.call_id = agent_calls}}

\* C34: within one call the timestamps of the ConversationTurn rows are
\* non-decreasing in the order the turns were emitted: a turn handed to the
\* database carries a timestamp not smaller than that of any turn of the
\* call emitted before it, and a background write stores the row with the
\* timestamp it was handed, whichever of the waiting writes completes.
C34_TimestampsFollowEmission ==
    [][/\ (HandlerStep /\ Len(tasks') = Len(tasks) + 1) =>
             \A t \in EarlierTimestamps : t <= tasks'[Len(tasks')].row.timestamp
       /\ Len(conversation_turns') > Len(conversation_turns) =>
             \E k \in DOMAIN tasks :
                 /\ tasks[k].op = "save_conversation_turn"
                 /\ conversation_turns' = Append(conversation_turns, tasks[k].row)]_vars

\* two turns of a call were written in the opposite order of their emission
C34_Witness ==
    /\ Len(conversation_turns) >= 2
    /\ conversation_turns[1].call_id = conversation_turns[2].call_id
    /\ conversation_turns[1].timestamp > conversation_turns[2].timestamp


\* the save_conversation_turn tasks that have not run yet
PendingTurnWrites == {k \in DOMAIN tasks : tasks[k].op = "save_conversation_turn"}

\* the durable store has refused no turn so far: every turn handed to it is
\* stored or still waiting to be written
NoTurnRefused ==
    Len(conversation_turns) + Cardinality(PendingTurnWrites) = xadd_count

\* C33: every turn committed before the shutdown of the session ends up in
\* the durable store when that store accepts its writes: as long as the
\* database has refused nothing, each committed turn of the call is stored
\* in conversation_turns or its write is still waiting to run (no later step
\* can create the write of a turn that has none).
C33_CommittedTurnsDurable ==
    (logger = "redis_logger" /\ db_manager /\ NoTurnRefused) =>
        \A h \in DOMAIN history :
            \/ \E k \in DOMAIN conversation_turns :
                  /\ conversation_turns[k].call_id = agent_calls
                  /\ conversation_turns[k].speaker_role = history[h].role
                  /\ conversation_turns[k].text_content = history[h].text_content
            \/ \E k \in PendingTurnWrites :
                  /\ tasks[k].row.call_id = agent_calls
                  /\ tasks[k].row.speaker_role = history[h].role
                  /\ tasks[k].row.text_content = history[h].text_content


\* the originate requests made so far for row i
DialsOf(i) == {k \in DOMAIN gateway_log : gateway_log[k].index = i}

\* call_attempts of row i when the first session loaded the file: the
\* campaign adds one when it selects the row and one when the attempt ends
AttemptsAtStart(i) ==
    df[i].call_attempts - 2 * Cardinality(DialsOf(i))
        - (IF pc = "originate" /\ facilitator[1].index = i THEN 1 ELSE 0)

\* C38: in a campaign session that starts with every contact eligible and
\* at call_attempts 0, and in which only the campaign writes the contact
\* file's rows, no contact is dialed a second time before every contact has
\* been dialed once.
C38_RoundRobin ==
    (sessions = 1 /\ \A i \in DOMAIN df : AttemptsAtStart(i) = 0) =>
        \A a, b \in DOMAIN gateway_log :
            (a < b /\ gateway_log[a].index = gateway_log[b].index) =>
                \A i \in DOMAIN df : \E c \in 1..(b - 1) : gateway_log[c].index = i

\* two contacts at call_attempts 0 and two dials
C38_Witness ==
    /\ sessions = 1
    /\ Len(df) = 2
    /\ \A i \in DOMAIN df : AttemptsAtStart(i) = 0
    /\ Len(gateway_log) = 2
    /\ gateway_log[1].index # gateway_log[2].index


\* make_outbound_calls is running
OutboundRunning ==
    pc \in {"outbound", "outbound_originate", "outbound_interval",
            "outbound_break", "outbound_done"}

\* C31: the campaign loop finishes after at most max_calls_per_session dial
\* attempts, whatever the contacts and whether the originate requests
\* succeed or fail: make_outbound_calls never makes more originate
\* requests than max_calls_per_session.
C31_OutboundAttemptsBounded ==
    OutboundRunning => Len(gateway_log) <= max_calls_per_session

\* C32: between two consecutive originate requests of one campaign the
\* loop sleeps call_interval_seconds, whether the earlier attempt succeeded
\* or failed.
C32_IntervalBetweenOriginates ==
    OutboundRunning =>
        \A k \in DOMAIN gateway_log :
            k + 1 \in DOMAIN gateway_log =>
                gateway_log[k + 1].at - gateway_log[k].at
                    >= call_interval_seconds * TicksPerSecond

\* C39: in make_outbound_calls, once a dial attempt has finished the dialed
\* contact's status is called or failed, never still in_progress, whether
\* the originate succeeded, failed or raised.
C39_OutboundStatusSettled ==
    (pc \in {"outbound_interval", "outbound_break"} /\ facilitator # None) =>
        worker_df[facilitator[1].index].status \in {"called", "failed"}

====
